---- MODULE Spec2Model ----
(***************************************************************************)
(* A model of the retrieval-and-generation pipeline of MergeRiskAI:        *)
(*   src/utils/vector_store.py  VectorStoreManager over a chromadb         *)
(*                              collection (through langchain's Chroma)    *)
(*   src/utils/rag_engine.py    GroqHTTP._call and RAGEngine               *)
(*   src/utils/tax_analyzer.py  TaxAnalyzer                                *)
(*   src/utils/document_processor.py  DocumentProcessor.split_into_chunks  *)
(*   src/app.py                 main() and the Streamlit session state     *)
(*                                                                         *)
(* Failures of the external capabilities are inputs of the operations,     *)
(* one per failure class the design names: an embedding failure, a         *)
(* backing-store failure on a write or on a read, and the ways the         *)
(* generation call can fail.  delete_collection and the re-creation of     *)
(* the collection fail only for the reason chromadb itself gives: the      *)
(* collection named does not exist.                                        *)
(***************************************************************************)
EXTENDS Integers, Sequences, FiniteSets, TLC

VARIABLES
    collection,    \* the collection persisted under COLLECTION_NAME
    vector_store,  \* VectorStoreManager.vector_store: the collection it is bound to
    retriever,     \* RAGEngine.qa_chain's retriever: the collection it is bound to
    uuids,         \* how many collections the client has created
    ids,           \* how many document ids have been generated
    last,          \* what the most recent call returned (or raised)
    cleared,       \* history: clear_collection has returned at least once
    pc,            \* per caller, its position inside clear_collection
    analysis,      \* the run of TaxAnalyzer.analyze_document
    ui             \* the Streamlit session: widgets, session_state, the last run of main()

vars == <<collection, vector_store, retriever, uuids, ids, last, cleared, pc, analysis, ui>>

(***************************************************************************)
(* Bounds of the model.                                                    *)
(***************************************************************************)
MaxDocs == 3        \* chunks the collection may hold
MaxIds == 4         \* document ids ever generated
MaxClears == 2      \* collections re-created by clear_collection
MaxK == 2           \* largest k a direct similarity_search is given
MaxFailures == 1    \* injected failures during one analyze_document

(***************************************************************************)
(* Program constants.                                                      *)
(***************************************************************************)
TOP_K_RESULTS == 5
DEFAULT_K == 5
SOURCE_PREVIEW_LEN == 300
REPORT_SOURCES == 2
REPORT_EXCERPT_LEN == 150
GROQ_API_KEY == "configured"

Min(a, b) == IF a <= b THEN a ELSE b
Max(a, b) == IF a >= b THEN a ELSE b
Abs(a) == IF a >= 0 THEN a ELSE -a

(***************************************************************************)
(* Strings.  A string is the first n characters of a source text followed  *)
(* by `dots` full stops: enough to slice, to append "..." and to measure.  *)
(***************************************************************************)
TextIds == {"a0", "a1", "b0"}

TextLen(t) ==
    CASE t = "a0" -> 120
      [] t = "a1" -> 301
      [] t = "b0" -> 300

Full(t) == [src |-> t, n |-> TextLen(t), dots |-> 0]

StrLen(s) == s.n + s.dots

\* s[:m]
Slice(s, m) == [src |-> s.src, n |-> Min(s.n, m), dots |-> Min(s.dots, Max(0, m - s.n))]

\* s + "..."   (s is a prefix of a text, possibly with dots already)
Ellipsis(s) == [src |-> s.src, n |-> s.n, dots |-> s.dots + 3]

(***************************************************************************)
(* Documents: the chunks split_into_chunks produces, each with the file    *)
(* name and its chunk_index as metadata.                                   *)
(***************************************************************************)
Doc(t, f, i) == [page_content |-> Full(t), metadata |-> [filename |-> f, chunk_index |-> i]]

DocA == <<Doc("a0", "a.pdf", 0), Doc("a1", "a.pdf", 1)>>
DocB == <<Doc("b0", "b.pdf", 0)>>

Batches == {DocA, DocB}

UserQuestions == {"q1", "q2"}

\* The embedding provider, deterministic: a text's place on a line.
Embed(s) ==
    CASE s = "a0" -> 1
      [] s = "a1" -> 4
      [] s = "b0" -> 1
      [] s = "q1" -> 1
      [] OTHER -> 2

Distance(q, document) == Abs(Embed(q) - Embed(document.page_content.src))

(***************************************************************************)
(* The world an operation acts on.                                         *)
(***************************************************************************)
World ==
    [collection |-> collection, vector_store |-> vector_store,
     retriever |-> retriever, uuids |-> uuids, ids |-> ids]

SetWorld(w) ==
    /\ collection' = w.collection
    /\ vector_store' = w.vector_store
    /\ retriever' = w.retriever
    /\ uuids' = w.uuids
    /\ ids' = w.ids

NoFault == [embed |-> 0, store |-> 0]

\* A failure at chunk i of n (0: none) of the embedding, or of the store.
Faults(n) == {[embed |-> e, store |-> s] : e \in 0..n, s \in 0..n}

Raised(w, e) == [world |-> w, status |-> "raised", error |-> e, value |-> <<>>]
Returned(w, e, v) == [world |-> w, status |-> "ok", error |-> e, value |-> v]

\* A Chroma wrapper bound to collection h reaches it only while that very
\* collection exists: chromadb addresses a collection by its uuid.
HandleLive(w, h) == w.collection.exists /\ w.collection.uuid = h

(***************************************************************************)
(* VectorStoreManager.__init__: the client opens the persistent store and  *)
(* Chroma(...) gets or creates the collection named COLLECTION_NAME.       *)
(* RAGEngine.__init__ then builds its retriever from that Chroma object.   *)
(***************************************************************************)
Constructed ==
    [collection |-> [exists |-> TRUE, uuid |-> 1, docs |-> <<>>],
     vector_store |-> 1, retriever |-> 1, uuids |-> 1, ids |-> 0]

(***************************************************************************)
(* add_documents.  langchain's Chroma.add_texts embeds the texts of the    *)
(* whole batch in one embed_documents call and then makes one upsert of    *)
(* the whole batch (every chunk carries metadata, its chunk_index, so the  *)
(* branch with a single upsert is taken); each chunk gets a new uuid.      *)
(* The except clause logs and re-raises.                                   *)
(***************************************************************************)
\* A store that keeps one copy of a chunk: a chunk whose text and metadata
\* are stored already is not stored again.
StoredUnlessPresent(w, documents, n) ==
    LET new == SelectSeq([i \in 1..n |-> [id |-> w.ids + i, document |-> documents[i]]],
                         LAMBDA e : \A j \in DOMAIN w.collection.docs :
                                        w.collection.docs[j].document # e.document)
    IN  [w EXCEPT !.collection.docs = @ \o new, !.ids = @ + n]

Stored(w, documents, n) ==
    [w EXCEPT !.collection.docs =
                  @ \o [i \in 1..n |-> [id |-> w.ids + i, document |-> documents[i]]],
              !.ids = @ + n]

\* A version that embeds and stores chunk by chunk: what was stored before
\* the failing chunk stays.
AddDocumentsPerChunk(w, documents, fault) ==
    LET n == Len(documents)
        stop == IF fault.embed # 0 /\ (fault.store = 0 \/ fault.embed <= fault.store)
                    THEN fault.embed
                    ELSE fault.store
    IN  IF ~HandleLive(w, w.vector_store) THEN Raised(w, "CollectionNotFound")
        ELSE IF stop # 0
            THEN Raised(Stored(w, documents, stop - 1),
                        IF stop = fault.embed THEN "EmbeddingFailure" ELSE "StoreFailure")
        ELSE Returned(Stored(w, documents, n), "none", [i \in 1..n |-> w.ids + i])

AddDocuments(w, documents, fault) ==
    LET n == Len(documents)
    IN  IF fault.embed # 0 THEN Raised(w, "EmbeddingFailure")
        ELSE IF ~HandleLive(w, w.vector_store) THEN Raised(w, "CollectionNotFound")
        ELSE IF fault.store # 0 THEN Raised(w, "StoreFailure")
        ELSE Returned(Stored(w, documents, n), "none", [i \in 1..n |-> w.ids + i])

(***************************************************************************)
(* Nearest-neighbour lookup: the k stored chunks nearest to the query, in  *)
(* order of increasing distance.  The index promises no order among        *)
(* chunks at the same distance, so every such order is a possible result.  *)
(***************************************************************************)
RECURSIVE Ranked(_, _, _, _)
Ranked(docs, remaining, q, k) ==
    IF k = 0 \/ remaining = {}
        THEN {<<>>}
        ELSE LET nearest == {i \in remaining :
                                \A j \in remaining :
                                    Distance(q, docs[i].document) <= Distance(q, docs[j].document)}
             IN  UNION {{<<docs[i].document>> \o r : r \in Ranked(docs, remaining \ {i}, q, k - 1)}
                            : i \in nearest}

\* chromadb before 0.4: asking for more results than the index holds raises.
ChromaSearchNotEnough(w, h, query, k, fault) ==
    IF fault.embed # 0 THEN {Raised(w, "EmbeddingFailure")}
    ELSE IF ~HandleLive(w, h) THEN {Raised(w, "CollectionNotFound")}
    ELSE IF fault.store # 0 THEN {Raised(w, "StoreFailure")}
    ELSE IF k > Len(w.collection.docs) THEN {Raised(w, "NotEnoughElements")}
    ELSE {Returned(w, "none", r) :
            r \in Ranked(w.collection.docs, DOMAIN w.collection.docs, query, k)}

\* langchain's Chroma.similarity_search through a wrapper bound to h: embed
\* the query, then query the collection.
ChromaSearch(w, h, query, k, fault) ==
    IF fault.embed # 0 THEN {Raised(w, "EmbeddingFailure")}
    ELSE IF ~HandleLive(w, h) THEN {Raised(w, "CollectionNotFound")}
    ELSE IF fault.store # 0 THEN {Raised(w, "StoreFailure")}
    ELSE {Returned(w, "none", r) :
            r \in Ranked(w.collection.docs, DOMAIN w.collection.docs, query, k)}

\* similarity_search: the except clause logs and re-raises.
SimilaritySearch(w, query, k, fault) ==
    ChromaSearch(w, w.vector_store, query, k, fault)

(***************************************************************************)
(* clear_collection: delete_collection(COLLECTION_NAME), then a new        *)
(* Chroma(...) bound to the collection it gets or creates, assigned to     *)
(* self.vector_store.  Nothing else is reassigned.                         *)
(***************************************************************************)
ClearDelete(w) ==
    IF ~w.collection.exists
        THEN Raised(w, "CollectionNotFound")
        ELSE Returned([w EXCEPT !.collection.exists = FALSE, !.collection.docs = <<>>],
                      "none", <<>>)

ClearRecreate(w) ==
    IF w.collection.exists
        THEN Returned([w EXCEPT !.vector_store = w.collection.uuid], "none", <<>>)
        ELSE Returned([w EXCEPT !.collection = [exists |-> TRUE, uuid |-> w.uuids + 1,
                                                docs |-> <<>>],
                                !.vector_store = w.uuids + 1,
                                !.uuids = @ + 1],
                      "none", <<>>)

\* A version that empties nothing: the collection is kept as it is.
ClearCollectionKeep(w) == Returned(w, "none", <<>>)

ClearCollection(w) ==
    LET d == ClearDelete(w)
    IN  IF d.status = "raised" THEN d ELSE ClearRecreate(d.world)

(***************************************************************************)
(* get_collection_count: client.get_collection(COLLECTION_NAME).count();   *)
(* any exception is logged and 0 is returned.                              *)
(***************************************************************************)
\* A version whose except clause re-raises like the other methods'.
GetCollectionCountRaise(w, fault) ==
    IF ~w.collection.exists THEN Raised(w, "CollectionNotFound")
    ELSE IF fault.store # 0 THEN Raised(w, "StoreFailure")
    ELSE Returned(w, "none", Len(w.collection.docs))

GetCollectionCount(w, fault) ==
    IF ~w.collection.exists THEN Returned(w, "CollectionNotFound", 0)
    ELSE IF fault.store # 0 THEN Returned(w, "StoreFailure", 0)
    ELSE Returned(w, "none", Len(w.collection.docs))

(***************************************************************************)
(* GroqHTTP._call.  What the generation call can do:                       *)
(*   ok           200 and a well-formed body                               *)
(*   timeout      no answer within timeout=30: requests raises Timeout     *)
(*   non200       a status other than 200                                  *)
(*   missing_key  a JSON body without choices[0].message.content           *)
(*   bad_json     a body that is not JSON: response.json() raises an       *)
(*                error that is a RequestException in requests >= 2.27     *)
(*                and a plain ValueError before                            *)
(*   bad_type     a JSON body whose "choices" is null: TypeError           *)
(* _call returns a string for what it catches; the rest propagates.        *)
(***************************************************************************)
GenOutcomes == {"ok", "timeout", "non200", "missing_key", "bad_json", "bad_type"}
TransportFailures == GenOutcomes \ {"ok"}

Text(prefix, body) == [prefix |-> prefix, body |-> body]

GroqCall(gen, jsonErrorIsRequestException) ==
    CASE gen = "ok" -> [status |-> "ok", error |-> "none", text |-> Text("", "completion")]
      [] gen = "non200" -> [status |-> "ok", error |-> "none", text |-> Text("API Error: ", "status")]
      [] gen = "timeout" ->
            [status |-> "ok", error |-> "none", text |-> Text("Request failed: ", "Timeout")]
      [] gen = "missing_key" ->
            [status |-> "ok", error |-> "none", text |-> Text("Invalid response: ", "KeyError")]
      [] gen = "bad_json" ->
            IF jsonErrorIsRequestException
                THEN [status |-> "ok", error |-> "none",
                      text |-> Text("Request failed: ", "JSONDecodeError")]
                ELSE [status |-> "raised", error |-> "ValueError", text |-> Text("", "")]
      [] gen = "bad_type" -> [status |-> "raised", error |-> "TypeError", text |-> Text("", "")]

(***************************************************************************)
(* RetrievalQA with chain_type "stuff": retrieve, put the full text of     *)
(* every retrieved chunk into the prompt in the order retrieved, call the  *)
(* model, and return its text with the retrieved documents.                *)
(***************************************************************************)
NoPrompt == [context |-> <<>>, question |-> "none", built |-> FALSE]

QaChain(retr, question, gen, jsonErrorIsRequestException) ==
    IF retr.status = "raised"
        THEN [status |-> "raised", error |-> retr.error, prompt |-> NoPrompt,
              result |-> Text("", ""), source_documents |-> <<>>]
        ELSE LET prompt == [context |-> [i \in DOMAIN retr.value |-> retr.value[i].page_content],
                            question |-> question, built |-> TRUE]
                 llm == GroqCall(gen, jsonErrorIsRequestException)
             IN  IF llm.status = "raised"
                     THEN [status |-> "raised", error |-> llm.error, prompt |-> prompt,
                           result |-> Text("", ""), source_documents |-> <<>>]
                     ELSE [status |-> "ok", error |-> "none", prompt |-> prompt,
                           result |-> llm.text, source_documents |-> retr.value]

(***************************************************************************)
(* RAGEngine.query.  path names the return statement taken.                *)
(***************************************************************************)
\* doc.page_content[:300] + "..." if len(doc.page_content) > 300 else doc.page_content
Preview(content) ==
    IF StrLen(content) > SOURCE_PREVIEW_LEN
        THEN Ellipsis(Slice(content, SOURCE_PREVIEW_LEN))
        ELSE content

Source(document) == [content |-> Preview(document.page_content), metadata |-> document.metadata]

QueryReturn(path, answer, sources) ==
    [status |-> "ok", error |-> "none", path |-> path,
     value |-> [answer |-> answer, sources |-> sources]]

\* A version without the surrounding handler.
QueryNoHandler(chain) ==
    IF chain.status = "raised"
        THEN [status |-> "raised", error |-> chain.error, path |-> "raise", value |-> <<>>]
        ELSE QueryReturn("success", chain.result,
                         [i \in DOMAIN chain.source_documents |-> Source(chain.source_documents[i])])

\* A version whose handler keeps no 'sources' key.
QueryNoSourcesKey(chain) ==
    IF chain.status = "raised"
        THEN [status |-> "ok", error |-> "none", path |-> "except",
              value |-> [answer |-> Text("Error: ", chain.error)]]
        ELSE QueryReturn("success", chain.result,
                         [i \in DOMAIN chain.source_documents |-> Source(chain.source_documents[i])])

\* A version that cites one chunk fewer than the prompt held.
QueryDropSource(chain) ==
    IF GROQ_API_KEY = ""
        THEN QueryReturn("no_key", Text("Groq API key not configured", ""), <<>>)
    ELSE IF chain.status = "raised"
        THEN QueryReturn("except", Text("Error: ", chain.error), <<>>)
    ELSE QueryReturn("success", chain.result,
                     [i \in 1..(Len(chain.source_documents) - 1) |->
                        Source(chain.source_documents[i])])

Query(chain) ==
    IF GROQ_API_KEY = ""
        THEN QueryReturn("no_key", Text("Groq API key not configured", ""), <<>>)
    ELSE IF chain.status = "raised"
        THEN QueryReturn("except", Text("Error: ", chain.error), <<>>)
    ELSE QueryReturn("success", chain.result,
                     [i \in DOMAIN chain.source_documents |-> Source(chain.source_documents[i])])

(***************************************************************************)
(* The calls, as actions.  last records the call, what went wrong inside   *)
(* it and what it gave back.                                               *)
(***************************************************************************)
Callers == {"t1", "t2"}

NoCall ==
    [op |-> "none", arg |-> <<>>, k |-> 0, fault |-> NoFault, gen |-> "none",
     status |-> "ok", error |-> "none", value |-> <<>>, path |-> "none", prompt |-> NoPrompt]

Call(op, arg, k, fault, r) ==
    [NoCall EXCEPT !.op = op, !.arg = arg, !.k = k, !.fault = fault,
                   !.status = r.status, !.error = r.error, !.value = r.value]

NoAnalysis ==
    [pc |-> "idle", section |-> 1, question |-> 1, section_results |-> <<>>,
     report |-> <<>>, asked |-> <<>>]

(***************************************************************************)
(* The Streamlit session.  initialize_session_state sets the three         *)
(* document fields to None and query_history to the empty list; no file is *)
(* uploaded and main() has not run.                                        *)
(***************************************************************************)
None == [type |-> "NoneType"]

NoRun ==
    [event |-> "none", doc_count |-> 0, add_called |-> FALSE, raised |-> "none",
     shown |-> "none", qa_shown |-> FALSE]

NoSession ==
    [uploaded_file |-> None,
     processed_document |-> None,
     document_metadata |-> None,
     document_analysis |-> None,
     query_history |-> <<>>,
     rerun |-> FALSE,
     run |-> NoRun]

Init ==
    /\ collection = Constructed.collection
    /\ vector_store = Constructed.vector_store
    /\ retriever = Constructed.retriever
    /\ uuids = Constructed.uuids
    /\ ids = Constructed.ids
    /\ last = NoCall
    /\ cleared = FALSE
    /\ pc = [t \in Callers |-> "idle"]
    /\ analysis = NoAnalysis
    /\ ui = NoSession

DoAddDocuments ==
    \E batch \in Batches :
        \E fault \in Faults(Len(batch)) :
            /\ Len(collection.docs) + Len(batch) <= MaxDocs
            /\ ids + Len(batch) <= MaxIds
            /\ LET r == AddDocuments(World, batch, fault)
               IN  /\ SetWorld(r.world)
                   /\ last' = Call("add_documents", batch, 0, fault, r)
            /\ UNCHANGED <<cleared, pc, analysis, ui>>

DoSimilaritySearch ==
    \E query \in UserQuestions, k \in (1..MaxK) \cup {DEFAULT_K}, fault \in Faults(1) :
        \E r \in SimilaritySearch(World, query, k, fault) :
            /\ last' = Call("similarity_search", query, k, fault, r)
            /\ UNCHANGED <<collection, vector_store, retriever, uuids, ids, cleared, pc, analysis, ui>>

DoGetCollectionCount ==
    \E fault \in {f \in Faults(1) : f.embed = 0} :
        LET r == GetCollectionCount(World, fault)
        IN  /\ last' = Call("get_collection_count", <<>>, 0, fault, r)
            /\ UNCHANGED <<collection, vector_store, retriever, uuids, ids, cleared, pc, analysis, ui>>

\* clear_collection run by one caller with nothing in between.
DoClearCollection ==
    /\ uuids <= MaxClears
    /\ LET r == ClearCollection(World)
       IN  /\ SetWorld(r.world)
           /\ last' = Call("clear_collection", <<>>, 0, NoFault, r)
           /\ cleared' = (cleared \/ r.status = "ok")
    /\ UNCHANGED <<pc, analysis, ui>>

DoQuery ==
    \E question \in UserQuestions, fault \in Faults(1), gen \in GenOutcomes :
        \E jsonErrorIsRequestException \in IF gen = "bad_json" THEN BOOLEAN ELSE {TRUE},
           retr \in ChromaSearch(World, retriever, question, TOP_K_RESULTS, fault) :
            LET chain == QaChain(retr, question, gen, jsonErrorIsRequestException)
                r == Query(chain)
            IN  /\ last' = [Call("query", question, TOP_K_RESULTS, fault, r)
                                EXCEPT !.gen = gen, !.path = r.path, !.prompt = chain.prompt]
                /\ UNCHANGED <<collection, vector_store, retriever, uuids, ids, cleared, pc,
                               analysis, ui>>

Next ==
    \/ DoAddDocuments
    \/ DoSimilaritySearch
    \/ DoGetCollectionCount
    \/ DoClearCollection
    \/ DoQuery

\* The program as it runs: one call at a time.
Spec == Init /\ [][Next]_vars

(***************************************************************************)
(* clear_collection run by a caller while others call the store: its two   *)
(* statements are two steps, and no lock is held between them.             *)
(***************************************************************************)
ClearDeleteStep(t) ==
    /\ pc[t] = "idle"
    /\ uuids <= MaxClears
    /\ LET r == ClearDelete(World)
       IN  /\ SetWorld(r.world)
           /\ IF r.status = "raised"
                 THEN /\ last' = Call("clear_collection", <<>>, 0, NoFault, r)
                      /\ pc' = pc
                 ELSE /\ last' = Call("delete_collection", <<>>, 0, NoFault, r)
                      /\ pc' = [pc EXCEPT ![t] = "deleted"]
    /\ UNCHANGED <<cleared, analysis, ui>>

ClearRecreateStep(t) ==
    /\ pc[t] = "deleted"
    /\ LET r == ClearRecreate(World)
       IN  /\ SetWorld(r.world)
           /\ last' = Call("clear_collection", <<>>, 0, NoFault, r)
    /\ pc' = [pc EXCEPT ![t] = "idle"]
    /\ cleared' = TRUE
    /\ UNCHANGED <<analysis, ui>>

NextConc ==
    \/ \E t \in Callers : ClearDeleteStep(t)
    \/ \E t \in Callers : ClearRecreateStep(t)
    \/ DoAddDocuments
    \/ DoSimilaritySearch
    \/ DoGetCollectionCount
    \/ DoQuery

\* The store under concurrent callers.
SpecConc == Init /\ [][NextConc]_vars

(***************************************************************************)
(* TaxAnalyzer.analyze_document: the fixed battery, asked one question     *)
(* after the other through RAGEngine.query.                                *)
(***************************************************************************)
analysis_sections ==
    << [section |-> "audit_outcomes", questions |->
          << "What are the tax audit outcomes and indicators mentioned?",
             "Are there any hard labels or historical audit findings?",
             "What is the audit risk score?" >>],
       [section |-> "business_analysis", questions |->
          << "What is the effective tax rate mentioned?",
             "What are the tax-adjusted returns or IRR mentioned?",
             "What scenarios are analyzed (base case, P75, P90, P95)?",
             "What are the key tax metrics and financial figures?" >>],
       [section |-> "escalation_flags", questions |->
          << "What are the critical tax escalation flags or risk drivers?",
             "Are there any material tax issues requiring partner attention?" >>],
       [section |-> "executive_summary", questions |->
          << "Provide a comprehensive executive summary of the key tax takeaways",
             "What are the main tax risks and opportunities?",
             "What are the quantified risk insights?" >>],
       [section |-> "balance_sheet", questions |->
          << "What balance sheet and tax metrics are mentioned?",
             "What tax liabilities or assets are disclosed?" >>],
       [section |-> "transaction_structure", questions |->
          << "What is the transaction structure (merger, acquisition, deal type)?",
             "What jurisdictions are involved?" >>],
       [section |-> "investment_analysis", questions |->
          << "What is the share class IRR or tax-adjusted IRR?",
             "What investment recommendations are provided?",
             "What are the reserve recommendations?" >>],
       [section |-> "tax_contingencies", questions |->
          << "What tax contingencies or reserves are mentioned?",
             "What is the expected tax contingency distribution (P50, P75, P90, P95)?",
             "What methodologies are used (Log-Normal, Conservative, Triangular)?" >>] >>

SectionNames == {analysis_sections[i].section : i \in DOMAIN analysis_sections}

\* report[section] = section_results
Assigned(report, section, section_results) ==
    [s \in DOMAIN report \cup {section} |->
        IF s = section THEN section_results ELSE report[s]]

\* What is asked of the engine for one question, and what went wrong.
AnalysisInputs ==
    {[fault |-> f, gen |-> g, jsonErrorIsRequestException |-> c] :
        f \in Faults(1), g \in GenOutcomes, c \in BOOLEAN}

Failing(in) == in.fault # NoFault \/ in.gen # "ok"

Injected(asked) == Cardinality({i \in DOMAIN asked : asked[i].injected})

IterateReversed(questions, turn) == questions[Len(questions) - turn + 1]

\* for question in questions: the question of one turn of the inner loop.
Iterate(questions, turn) == questions[turn]

AnalyzeStart ==
    /\ analysis.pc = "idle"
    /\ analysis' = [pc |-> "running", section |-> 1, question |-> 1,
                    section_results |-> <<>>, report |-> <<>>, asked |-> <<>>]
    /\ UNCHANGED <<collection, vector_store, retriever, uuids, ids, last, cleared, pc, ui>>

\* One turn of the inner loop; the end of a section assigns it to the
\* report, the end of the last section returns the report.
AnalyzeQuestion ==
    /\ analysis.pc = "running"
    /\ \E in \in AnalysisInputs :
        /\ Failing(in) => Injected(analysis.asked) < MaxFailures
        /\ in.jsonErrorIsRequestException \/ in.gen = "bad_json"
        /\ LET sec == analysis_sections[analysis.section]
               question == Iterate(sec.questions, analysis.question)
           IN  \E retr \in ChromaSearch(World, retriever, question, TOP_K_RESULTS, in.fault) :
                LET chain == QaChain(retr, question, in.gen, in.jsonErrorIsRequestException)
                    response == Query(chain)
                    asked == Append(analysis.asked,
                                    [question |-> question, injected |-> Failing(in),
                                     failed |-> (retr.status = "raised" \/ in.gen # "ok"),
                                     retrieved |-> retr.value])
                IN  IF response.status = "raised"
                       \/ ~({"answer", "sources"} \subseteq DOMAIN response.value)
                    THEN analysis' = [analysis EXCEPT !.pc = "raised", !.asked = asked]
                    ELSE LET results == Append(analysis.section_results,
                                               [question |-> question,
                                                answer |-> response.value.answer,
                                                sources |-> response.value.sources])
                         IN  IF analysis.question < Len(sec.questions)
                             THEN analysis' = [analysis EXCEPT !.question = @ + 1,
                                                               !.section_results = results,
                                                               !.asked = asked]
                             ELSE analysis' =
                                    [pc |-> IF analysis.section < Len(analysis_sections)
                                                THEN "running" ELSE "done",
                                     section |-> analysis.section + 1,
                                     question |-> 1,
                                     section_results |-> <<>>,
                                     report |-> Assigned(analysis.report, sec.section, results),
                                     asked |-> asked]
    /\ UNCHANGED <<collection, vector_store, retriever, uuids, ids, last, cleared, pc, ui>>

(***************************************************************************)
(* TaxAnalyzer.generate_summary_report: the report as a sequence of lines. *)
(***************************************************************************)
section_titles ==
    << [section |-> "audit_outcomes", title |-> "Tax Audit Outcomes & Indicators"],
       [section |-> "business_analysis", title |-> "Business Analysis for VC/PE"],
       [section |-> "escalation_flags", title |-> "Escalation Flags & Risk Drivers"],
       [section |-> "executive_summary", title |-> "Executive Summary & Key Takeaways"],
       [section |-> "balance_sheet", title |-> "Balance Sheet & Tax Metrics"],
       [section |-> "transaction_structure", title |-> "Transaction Structure"],
       [section |-> "investment_analysis", title |-> "Integrated Investment Analysis"],
       [section |-> "tax_contingencies", title |-> "Tax Contingency Distribution"] >>

Line(kind, idx, text) == [kind |-> kind, idx |-> idx, text |-> text]

RECURSIVE Flatten(_)
Flatten(ss) == IF ss = <<>> THEN <<>> ELSE Head(ss) \o Flatten(Tail(ss))

\* item['question'], item['answer'], item['sources'] and source['content']
\* are read by key: a missing key is a KeyError.
ItemReadable(item) ==
    /\ {"question", "answer", "sources"} \subseteq DOMAIN item
    /\ \A i \in 1..Min(REPORT_SOURCES, Len(item.sources)) : "content" \in DOMAIN item.sources[i]

ExcerptAtPreviewLen(content) == Slice(content, SOURCE_PREVIEW_LEN)

\* source['content'][:150]
Excerpt(content) == Slice(content, REPORT_EXCERPT_LEN)

ItemLines(item) ==
    << Line("question", 0, item.question), Line("answer", 0, item.answer) >>
    \o (IF item.sources # <<>>
            THEN << Line("sources_header", 0, "") >>
                 \o [i \in 1..Min(REPORT_SOURCES, Len(item.sources)) |->
                        Line("source", i, Ellipsis(Excerpt(item.sources[i].content)))]
                 \o << Line("blank", 0, "") >>
            ELSE <<>>)

SectionLinesIfPresent(analysis_report, st) ==
    IF st.section \in DOMAIN analysis_report
        THEN << Line("h2", 0, st.title) >>
             \o Flatten([i \in DOMAIN analysis_report[st.section] |->
                            ItemLines(analysis_report[st.section][i])])
             \o << Line("rule", 0, "---") >>
        ELSE <<>>

SectionLines(analysis_report, st) ==
    << Line("h2", 0, st.title) >>
    \o (IF st.section \in DOMAIN analysis_report
            THEN Flatten([i \in DOMAIN analysis_report[st.section] |->
                            ItemLines(analysis_report[st.section][i])])
            ELSE <<>>)
    \o << Line("rule", 0, "---") >>

GenerateSummaryReport(analysis_report) ==
    IF \E st \in {section_titles[i] : i \in DOMAIN section_titles} :
            /\ st.section \in DOMAIN analysis_report
            /\ \E i \in DOMAIN analysis_report[st.section] :
                    ~ItemReadable(analysis_report[st.section][i])
        THEN [status |-> "raised", error |-> "KeyError", value |-> <<>>]
        ELSE [status |-> "ok", error |-> "none",
              value |-> << Line("title", 0, "M&A TAX RISK ASSESSMENT REPORT") >>
                        \o Flatten([i \in DOMAIN section_titles |->
                                      SectionLines(analysis_report, section_titles[i])])]

(***************************************************************************)
(* An analysis run starts from a state the store can be in: a document     *)
(* ingested into the new store, or a document ingested, the database       *)
(* cleared and a document ingested again.                                  *)
(***************************************************************************)
Ingested == AddDocuments(Constructed, DocA, NoFault).world
Reingested ==
    AddDocuments(ClearCollection(AddDocuments(Constructed, DocB, NoFault).world).world,
                 DocA, NoFault).world

InitAnalyze ==
    /\ \E w \in {Ingested, Reingested} :
        /\ collection = w.collection
        /\ vector_store = w.vector_store
        /\ retriever = w.retriever
        /\ uuids = w.uuids
        /\ ids = w.ids
        /\ cleared = (w = Reingested)
    /\ last = NoCall
    /\ pc = [t \in Callers |-> "idle"]
    /\ analysis = NoAnalysis
    /\ ui = NoSession

NextAnalyze ==
    \/ AnalyzeStart
    \/ AnalyzeQuestion

SpecAnalyze == InitAnalyze /\ [][NextAnalyze]_vars

(***************************************************************************)
(* generate_summary_report on its own: the report handed to it is any      *)
(* mapping from some of the sections to a list of {question, answer,       *)
(* sources} items, and the one step renders it.  A mapping is read by key  *)
(* only (section in analysis, analysis[section]), so it is a function here.*)
(***************************************************************************)
MaxItems == 2

ReportSections == {"business_analysis", "tax_contingencies"}

ReportItems ==
    { [question |-> "q1", answer |-> Text("", "completion"), sources |-> <<>>],
      [question |-> "q2", answer |-> Text("Error: ", "CollectionNotFound"),
       sources |-> << Source(DocA[1]) >>],
      [question |-> "q1", answer |-> Text("", "completion"),
       sources |-> << Source(DocA[2]), Source(DocB[1]), Source(DocA[1]) >>] }

ItemLists == UNION {[1..n -> ReportItems] : n \in 0..MaxItems}

ReportInputs == UNION {[present -> ItemLists] : present \in SUBSET ReportSections}

InitReport ==
    /\ collection = Constructed.collection
    /\ vector_store = Constructed.vector_store
    /\ retriever = Constructed.retriever
    /\ uuids = Constructed.uuids
    /\ ids = Constructed.ids
    /\ last = NoCall
    /\ cleared = FALSE
    /\ pc = [t \in Callers |-> "idle"]
    /\ \E r \in ReportInputs : analysis = [NoAnalysis EXCEPT !.pc = "given", !.report = r]
    /\ ui = NoSession

DoGenerateSummaryReport ==
    /\ analysis.pc = "given"
    /\ last.op = "none"
    /\ last' = Call("generate_summary_report", analysis.report, 0, NoFault,
                    GenerateSummaryReport(analysis.report))
    /\ UNCHANGED <<collection, vector_store, retriever, uuids, ids, cleared, pc, analysis, ui>>

NextReport == DoGenerateSummaryReport

SpecReport == InitReport /\ [][NextReport]_vars

(***************************************************************************)
(* DocumentProcessor.split_into_chunks on its own.  A metadata value is    *)
(* its Python type and a payload; the text splitter is the library's, and  *)
(* a text is known by the chunks the splitter cuts it into.                *)
(***************************************************************************)
Value(type, v) == [type |-> type, v |-> v]

Values ==
    { Value("str", 1), Value("int", 7), Value("float", 2), Value("bool", 1),
      Value("NoneType", 0), Value("list", 1), Value("dict", 1), Value("object", 1) }

IsPrimitiveOrNone(v) == v.type \in {"str", "int", "float", "bool", "NoneType"}

\* isinstance(v, (str, int, float, bool))
IsPrimitive(v) == v.type \in {"str", "int", "float", "bool"}

MetadataKeys == {"filename", "creation_date", "chunk_index"}

\* metadata: Dict = None
NoMetadata == [given |-> FALSE, entries |-> <<>>]

MetadataInputs ==
    {NoMetadata}
    \cup {[given |-> TRUE, entries |-> e] :
            e \in UNION {[keys -> Values] : keys \in SUBSET MetadataKeys}}

Texts == {"", "A", "B", "not_a_str"}

\* self.text_splitter.split_text(text)
SplitText(text) ==
    CASE text = "A" -> [status |-> "ok", error |-> "none", value |-> << Full("a0"), Full("a1") >>]
      [] text = "B" -> [status |-> "ok", error |-> "none", value |-> << Full("b0") >>]
      [] text = "" -> [status |-> "ok", error |-> "none", value |-> <<>>]
      [] OTHER -> [status |-> "raised", error |-> "TypeError", value |-> <<>>]

\* {**clean_metadata, "chunk_index": i}
ChunkMetadata(clean_metadata, i) ==
    [k \in DOMAIN clean_metadata \cup {"chunk_index"} |->
        IF k = "chunk_index" THEN Value("int", i) ELSE clean_metadata[k]]

SplitIntoChunks(text, metadata) ==
    LET chunks == SplitText(text)
        kept == IF metadata.given /\ DOMAIN metadata.entries # {}
                    THEN {k \in DOMAIN metadata.entries : IsPrimitive(metadata.entries[k])}
                    ELSE {}
        clean_metadata == [k \in kept |-> metadata.entries[k]]
    IN  IF chunks.status = "raised"
            THEN chunks
            ELSE [status |-> "ok", error |-> "none",
                  value |-> [i \in DOMAIN chunks.value |->
                                [page_content |-> chunks.value[i],
                                 metadata |-> ChunkMetadata(clean_metadata, i - 1)]]]

InitChunks ==
    /\ collection = Constructed.collection
    /\ vector_store = Constructed.vector_store
    /\ retriever = Constructed.retriever
    /\ uuids = Constructed.uuids
    /\ ids = Constructed.ids
    /\ cleared = FALSE
    /\ pc = [t \in Callers |-> "idle"]
    /\ analysis = NoAnalysis
    /\ ui = NoSession
    /\ \E text \in Texts, metadata \in MetadataInputs :
        last = [NoCall EXCEPT !.arg = [text |-> text, metadata |-> metadata]]

DoSplitIntoChunks ==
    /\ last.op = "none"
    /\ last' = Call("split_into_chunks", last.arg, 0, NoFault,
                    SplitIntoChunks(last.arg.text, last.arg.metadata))
    /\ UNCHANGED <<collection, vector_store, retriever, uuids, ids, cleared, pc, analysis, ui>>

NextChunks == DoSplitIntoChunks

SpecChunks == InitChunks /\ [][NextChunks]_vars

(***************************************************************************)
(* app.py: main() runs from top to bottom on every user event, with the    *)
(* widgets' values and st.session_state as they are then.  One step is one *)
(* event and the run it causes.                                            *)
(***************************************************************************)
MAX_FILE_SIZE_MB == 100

MaxHistory == 1

File(name, size_mb, text) ==
    [type |-> "UploadedFile", name |-> name, size_mb |-> size_mb, text |-> text]

\* What a user may upload: two documents with text, one of them exactly at
\* the size limit, a file over the limit, and a scan without any text.
Files ==
    { File("a.pdf", 1, "A"), File("b.pdf", MAX_FILE_SIZE_MB, "B"),
      File("big.pdf", MAX_FILE_SIZE_MB + 1, "A"), File("scan.pdf", 1, "") }

\* The chunks split_into_chunks cuts a file's text into.
ChunksOf(file) ==
    CASE file.name = "a.pdf" -> DocA
      [] file.name = "b.pdf" -> DocB
      [] OTHER -> <<>>

\* What can go wrong in one run: the step of the ingestion that fails.
\* extract_metadata never raises, and whether it reads the PDF or falls
\* back to the filename alone, its result has the filename.  The generation
\* call answers; a question still gets the error answer when the retrieval
\* under it fails.
Failures == {"none", "extract", "chunk", "embed", "store"}

RunInputs ==
    {[fail |-> f] : f \in Failures}

FaultOf(fail) ==
    [embed |-> IF fail = "embed" THEN 1 ELSE 0, store |-> IF fail = "store" THEN 1 ELSE 0]

\* process_uploaded_file: text, metadata, analysis, chunks; an exception of
\* extract_text_from_pdf or split_into_chunks is re-raised, extract_metadata
\* handles its own.
ProcessUploadedFile(file, in) ==
    IF in.fail \in {"extract", "chunk"}
        THEN [status |-> "raised", error |-> in.fail, text |-> None, metadata |-> None,
              analysis |-> None, chunks |-> <<>>]
        ELSE [status |-> "ok", error |-> "none",
              text |-> [type |-> "str", text |-> file.text],
              metadata |-> [type |-> "dict", filename |-> file.name],
              analysis |-> [type |-> "dict", of |-> file.text],
              chunks |-> ChunksOf(file)]

IsNone(x) == x.type = "NoneType"

NeedsProcessingAlways(s, file) == TRUE

\* processed_document is None or document_metadata.get('filename') != uploaded_file.name
NeedsProcessing(s, file) ==
    \/ IsNone(s.processed_document)
    \/ s.document_metadata.filename # file.name

ResetKeepingMetadata(s) ==
    [s EXCEPT !.processed_document = None,
              !.document_analysis = None,
              !.query_history = <<>>]

\* The Clear Database handler's assignments.
Reset(s) ==
    [s EXCEPT !.processed_document = None,
              !.document_metadata = None,
              !.document_analysis = None,
              !.query_history = <<>>]

\* "Store in session state"
Commit(s, p) ==
    [s EXCEPT !.processed_document = p.text,
              !.document_metadata = p.metadata,
              !.document_analysis = p.analysis,
              !.query_history = <<>>]

Outcome(w, s, add_called, raised, shown, stopped) ==
    [world |-> w, session |-> s, add_called |-> add_called, raised |-> raised,
     shown |-> shown, stopped |-> stopped]

\* A version that stores the document in the session before its chunks
\* are added.
IngestCommitFirst(w, s, file, in) ==
    IF file.size_mb > MAX_FILE_SIZE_MB
        THEN Outcome(w, s, FALSE, "none", "too_large", TRUE)
    ELSE IF ~NeedsProcessing(s, file)
        THEN Outcome(w, s, FALSE, "none", "none", FALSE)
    ELSE LET p == ProcessUploadedFile(file, in)
         IN  IF p.status = "raised"
                THEN Outcome(w, s, FALSE, p.error, "processing_error", TRUE)
                ELSE LET added == AddDocuments(w, p.chunks, FaultOf(in.fail))
                     IN  IF added.status = "raised"
                            THEN Outcome(added.world, Commit(s, p), TRUE, added.error,
                                         "processing_error", TRUE)
                            ELSE Outcome(added.world, Commit(s, p), TRUE, "none", "processed",
                                         FALSE)

\* The part of main() under "if uploaded_file is not None" up to the end
\* of the try block.
Ingest(w, s, file, in) ==
    IF file.size_mb > MAX_FILE_SIZE_MB
        THEN Outcome(w, s, FALSE, "none", "too_large", TRUE)
    ELSE IF ~NeedsProcessing(s, file)
        THEN Outcome(w, s, FALSE, "none", "none", FALSE)
    ELSE LET p == ProcessUploadedFile(file, in)
         IN  IF p.status = "raised"
                THEN Outcome(w, s, FALSE, p.error, "processing_error", TRUE)
                ELSE LET added == AddDocuments(w, p.chunks, FaultOf(in.fail))
                     IN  IF added.status = "raised"
                            THEN Outcome(added.world, s, TRUE, added.error,
                                         "processing_error", TRUE)
                            ELSE Outcome(added.world, Commit(s, p), TRUE, "none", "processed",
                                         FALSE)

Events == {"upload", "remove", "interact", "ask", "clear", "rerun"}

\* The run's record: what started it, the count the sidebar showed, whether
\* add_documents was called, the exception that ended the ingestion, the
\* message shown, whether the run reached the question box.
Ran(s, event, w, o) ==
    [s EXCEPT !.run = [event |-> event,
                       doc_count |-> GetCollectionCount(w, NoFault).value,
                       add_called |-> o.add_called,
                       raised |-> o.raised,
                       shown |-> o.shown,
                       qa_shown |-> ~IsNone(s.uploaded_file) /\ ~o.stopped]]

\* The Clear Database button: clear_collection, the four assignments,
\* st.rerun().  An exception of clear_collection leaves main().
MainClear(event) ==
    /\ event = "clear"
    /\ ~ui.rerun
    /\ uuids <= MaxClears
    /\ LET r == ClearCollection(World)
       IN  /\ SetWorld(r.world)
           /\ cleared' = (cleared \/ r.status = "ok")
           /\ ui' = IF r.status = "raised"
                        THEN Ran(ui, event, World, Outcome(World, ui, FALSE, r.error, "exception", TRUE))
                        ELSE [Ran(Reset(ui), event, World,
                                  Outcome(World, ui, FALSE, "none", "cleared", TRUE))
                                EXCEPT !.rerun = TRUE]
    /\ UNCHANGED <<last, pc, analysis>>

\* Any other run: the file in the uploader is ingested if it has to be,
\* and a question asked with the Ask button is answered and appended to
\* the history.
MainRun(event, file, in, question) ==
    /\ event # "clear"
    /\ ui.rerun <=> event = "rerun"
    /\ event = "upload" => file \in Files \ {ui.uploaded_file}
    /\ event = "remove" => ~IsNone(ui.uploaded_file) /\ IsNone(file)
    /\ event \in {"interact", "ask", "rerun"} => file = ui.uploaded_file
    /\ event = "ask" => ui.run.qa_shown /\ Len(ui.query_history) < MaxHistory
    /\ LET s == [ui EXCEPT !.uploaded_file = file, !.rerun = FALSE]
           o == IF IsNone(file)
                    THEN Outcome(World, s, FALSE, "none", "none", TRUE)
                    ELSE Ingest(World, s, file, in)
       IN  /\ Len(o.world.collection.docs) <= MaxDocs
           /\ o.world.ids <= MaxIds
           /\ SetWorld(o.world)
           /\ IF event = "ask" /\ ~o.stopped
                THEN \E retr \in ChromaSearch(o.world, o.world.retriever, question,
                                              TOP_K_RESULTS, NoFault) :
                        LET result == Query(QaChain(retr, question, "ok", TRUE))
                            entry == [question |-> question,
                                      answer |-> result.value.answer,
                                      sources |-> result.value.sources]
                        IN  ui' = Ran([o.session EXCEPT !.query_history = Append(@, entry)],
                                      event, World, o)
                ELSE ui' = Ran(o.session, event, World, o)
    /\ UNCHANGED <<last, cleared, pc, analysis>>

\* The file in the uploader during a run the event causes, and the inputs
\* the run reads: the failures only when it processes the file.
FilesFor(event) ==
    CASE event = "upload" -> Files
      [] event = "remove" -> {None}
      [] OTHER -> {ui.uploaded_file}

InputsFor(event, file) ==
    {in \in RunInputs :
        (IsNone(file) \/ Ingest(World, ui, file, [in EXCEPT !.fail = "none"]).shown # "processed")
            => in.fail = "none"}

\* What is typed into the question box.
Typed == {"q1"}

DoMain ==
    \E event \in Events :
        \/ MainClear(event)
        \/ \E file \in FilesFor(event) :
            \E in \in InputsFor(event, file), question \in Typed :
                MainRun(event, file, in, question)

NextApp == DoMain

SpecApp == Init /\ [][NextApp]_vars

(***************************************************************************)
(* The properties.                                                         *)
(***************************************************************************)
ErrorPrefixes == {"Error: ", "API Error: ", "Request failed: ", "Invalid response: "}

IsErrorText(answer) == answer.prefix \in ErrorPrefixes

IsText(answer) == DOMAIN answer = {"prefix", "body"}

IsList(x) == DOMAIN x = 1..Len(x)

RECURSIVE Offset(_)
Offset(si) == IF si = 1 THEN 0 ELSE Offset(si - 1) + Len(analysis_sections[si - 1].questions)

\* C1: analyze_document never ends its loop early, and the report it
\* returns has one {question, answer, sources} slot per question of every
\* section; the slot of a question whose retrieval or generation failed
\* carries error text, every other slot carries the model's answer with the
\* previews of the chunks retrieved for it; generate_summary_report renders
\* that report without failing.
C1_PartialFailureIsolation ==
    /\ analysis.pc # "raised"
    /\ analysis.pc = "done" =>
        /\ DOMAIN analysis.report = SectionNames
        /\ \A si \in DOMAIN analysis_sections :
            LET sec == analysis_sections[si]
                slots == analysis.report[sec.section]
            IN  /\ Len(slots) = Len(sec.questions)
                /\ \A qi \in DOMAIN sec.questions :
                    LET a == analysis.asked[Offset(si) + qi]
                    IN  /\ DOMAIN slots[qi] = {"question", "answer", "sources"}
                        /\ slots[qi].question = sec.questions[qi]
                        /\ a.question = sec.questions[qi]
                        /\ IF a.failed
                              THEN IsErrorText(slots[qi].answer)
                              ELSE /\ slots[qi].answer = Text("", "completion")
                                   /\ slots[qi].sources =
                                        [i \in DOMAIN a.retrieved |-> Source(a.retrieved[i])]
        /\ GenerateSummaryReport(analysis.report).status = "ok"

\* C1's case: a finished run in which the generation for the third question
\* alone failed.
C1_Witness ==
    /\ analysis.pc = "done"
    /\ {i \in DOMAIN analysis.asked : analysis.asked[i].failed} = {3}
    /\ analysis.report["audit_outcomes"][3].answer.prefix = "Error: "
    /\ analysis.report["tax_contingencies"][3].answer = Text("", "completion")

\* C2 (as claimed): once clear_collection has returned, the store answers
\* as a new one does, also through the RAGEngine built before the clear: a
\* count without a store failure is the number of chunks stored, and a
\* query without a failure retrieves from the chunks now stored, the
\* nearest TOP_K_RESULTS of them.
C2_ClearedBehavesFresh ==
    cleared =>
        /\ (last.op = "get_collection_count" /\ last.fault = NoFault)
                => last.value = Len(collection.docs)
        /\ (last.op = "query" /\ last.fault = NoFault)
                => /\ last.prompt.built
                   /\ Len(last.prompt.context) = Min(TOP_K_RESULTS, Len(collection.docs))
                   /\ (last.gen = "ok" => last.path = "success")

\* C3 (as claimed): no similarity_search, add_documents or
\* get_collection_count finds the collection missing, that is, sees the
\* state between the delete and the re-creation inside clear_collection.
C3_ClearIsAtomic ==
    last.op \in {"similarity_search", "add_documents", "get_collection_count"}
        => last.error # "CollectionNotFound"

\* C4: an add_documents call in which the embedding or the storing of some
\* chunk fails raises to its caller and leaves the collection exactly as it
\* was before the call.
C4_AddDocumentsAtomic ==
    [][(last'.op = "add_documents" /\ last'.fault # NoFault)
            => (last'.status = "raised" /\ collection' = collection)]_vars

\* C4's case: the embedding of the second chunk of a two-chunk batch failed,
\* on a collection that already held chunks.
C4_Witness ==
    /\ last.op = "add_documents"
    /\ Len(last.arg) = 2
    /\ last.fault = [embed |-> 2, store |-> 0]
    /\ last.status = "raised"
    /\ collection.docs # <<>>

\* C5: query never raises; whatever fails, it returns a mapping with an
\* 'answer' string and a 'sources' list.
C5_QueryNeverRaises ==
    last.op = "query" =>
        /\ last.status = "ok"
        /\ DOMAIN last.value = {"answer", "sources"}
        /\ IsText(last.value.answer)
        /\ IsList(last.value.sources)

\* C5's case: the generation call raised after chunks had been retrieved.
C5_Witness ==
    /\ last.op = "query"
    /\ last.prompt.built
    /\ last.gen = "bad_type"
    /\ last.path = "except"

ErrorFields == {"error", "raw_error"}

\* C6 (as claimed): when the generation call fails by transport, the
\* answer text begins with an error prefix, the result carries the failure
\* description in an error field, and the result is not the one the
\* success path returns.
C6_TransportFailureMarked ==
    (last.op = "query" /\ last.prompt.built /\ last.gen \in TransportFailures) =>
        /\ last.status = "ok"
        /\ IsErrorText(last.value.answer)
        /\ DOMAIN last.value \cap ErrorFields # {}
        /\ last.path # "success"

\* The chunks cited are the chunks of the prompt, in order, each cut to the
\* preview length (and marked "..." when cut), the prompt holding each in full.
SourcesArePrompt(sources, context) ==
    /\ Len(sources) = Len(context)
    /\ \A i \in DOMAIN context :
        /\ context[i] = Full(context[i].src)
        /\ sources[i].content.src = context[i].src
        /\ sources[i].content.n = Min(SOURCE_PREVIEW_LEN, TextLen(context[i].src))
        /\ sources[i].content.dots = (IF TextLen(context[i].src) > SOURCE_PREVIEW_LEN THEN 3 ELSE 0)
        /\ StrLen(sources[i].content) <= SOURCE_PREVIEW_LEN + 3

\* C7 (as claimed): for every result of query, 'sources' is the ordered
\* list of the chunks placed in the prompt, each cut to the preview length.
C7_SourcesAreContext ==
    last.op = "query" => SourcesArePrompt(last.value.sources, last.prompt.context)

\* C7 (amended): that holds of every result the success path returns; a
\* result the exception handler returns has no sources at all.
C7_SourcesAreContextOnSuccess ==
    last.op = "query" =>
        /\ last.path = "success"
                => SourcesArePrompt(last.value.sources, last.prompt.context)
        /\ last.path = "except" => last.value.sources = <<>>

\* C7's case: a successful query citing two chunks, one cut to the preview.
C7_Witness ==
    /\ last.op = "query"
    /\ last.path = "success"
    /\ Len(last.value.sources) >= 2
    /\ \E i \in DOMAIN last.value.sources : last.value.sources[i].content.dots = 3

\* C8: clear_collection does not raise and leaves get_collection_count at
\* 0, whatever the store held, an empty and a just cleared store included.
C8_ClearIdempotent ==
    last.op = "clear_collection" =>
        /\ last.status = "ok"
        /\ GetCollectionCount(World, NoFault).value = 0
        /\ GetCollectionCount(World, NoFault).error = "none"

\* C8's case: the second of two clears of a store nothing was ever added to.
C8_Witness ==
    /\ last.op = "clear_collection"
    /\ uuids = 3
    /\ ids = 0

\* C9: similarity_search on a collection holding nothing returns an empty
\* result, for every query and k, when nothing fails underneath.
C9_EmptyIndexSearch ==
    (last.op = "similarity_search" /\ last.fault = NoFault /\ collection.docs = <<>>)
        => (last.status = "ok" /\ last.value = <<>>)

\* C9's case: a search with k = 5 on a store that held chunks and was cleared.
C9_Witness ==
    /\ last.op = "similarity_search"
    /\ last.fault = NoFault
    /\ last.k = DEFAULT_K
    /\ cleared
    /\ ids > 0
    /\ collection.docs = <<>>

\* C10: get_collection_count never raises; it returns the number of chunks
\* stored, and 0 when the store cannot be read or the collection is
\* missing; similarity_search raises when the store cannot be read or its
\* collection is missing.
C10_CountDegradesSearchRaises ==
    /\ last.op = "get_collection_count" =>
        /\ last.status = "ok"
        /\ last.value \in Nat
        /\ last.value = (IF last.fault.store # 0 \/ ~collection.exists
                            THEN 0 ELSE Len(collection.docs))
    /\ (last.op = "similarity_search"
            /\ (last.fault.store # 0 \/ ~HandleLive(World, vector_store)))
        => last.status = "raised"

\* C10's case: a count taken while the collection is missing.
C10_Witness ==
    /\ last.op = "get_collection_count"
    /\ ~collection.exists
    /\ last.error = "CollectionNotFound"
    /\ last.value = 0

\* C11: analyze_document asks one question at a time, in section order and
\* then question order: the queries asked so far are the first questions of
\* the battery in that order, each has returned and left its slot before the
\* next is asked, and in the section being filled and in every section of
\* the report the slots stand in the order of the section's questions, each
\* with the question that produced it.
C11_SequentialOrderedQueries ==
    analysis.pc \in {"running", "done"} =>
        LET asked == analysis.asked
            filled == analysis.section - 1
        IN  /\ Len(asked) = Offset(analysis.section) + Len(analysis.section_results)
            /\ DOMAIN analysis.report = {analysis_sections[si].section : si \in 1..filled}
            /\ \A si \in 1..filled :
                LET sec == analysis_sections[si]
                    slots == analysis.report[sec.section]
                IN  /\ Len(slots) = Len(sec.questions)
                    /\ \A qi \in DOMAIN slots :
                        /\ slots[qi].question = sec.questions[qi]
                        /\ asked[Offset(si) + qi].question = sec.questions[qi]
            /\ \A qi \in DOMAIN analysis.section_results :
                LET sec == analysis_sections[analysis.section]
                IN  /\ analysis.pc = "running"
                    /\ analysis.section_results[qi].question = sec.questions[qi]
                    /\ asked[Offset(analysis.section) + qi].question = sec.questions[qi]

\* C11's case: the run is inside its second section, two of that section's
\* questions answered after the whole first section.
C11_Witness ==
    /\ analysis.pc = "running"
    /\ analysis.section = 2
    /\ Len(analysis.section_results) = 2
    /\ Len(analysis.asked) = Offset(2) + 2
    /\ "audit_outcomes" \in DOMAIN analysis.report

\* Reading a rendered report back: the lines of kind "question" in order,
\* the items of the input in the order of the section titles, and the run
\* of source lines that follows the pair whose question is line p.
QuestionLines(out) ==
    SelectSeq([i \in 1..Len(out) |-> i], LAMBDA i : out[i].kind = "question")

InputItems(report) ==
    Flatten([i \in DOMAIN section_titles |->
                IF section_titles[i].section \in DOMAIN report
                    THEN report[section_titles[i].section] ELSE <<>>])

RunOfSources(out, p) ==
    {i \in (p + 3)..Len(out) :
        /\ out[p + 2].kind = "sources_header"
        /\ \A j \in (p + 3)..i : out[j].kind = "source"}

Rendered == last.op = "generate_summary_report" /\ last.status = "ok"

\* The first sources of every pair are what follows it, in order and
\* numbered from 1, REPORT_SOURCES of them at most.
FirstSourcesFollow(out, report) ==
    LET qs == QuestionLines(out)
        items == InputItems(report)
    IN  /\ Len(qs) = Len(items)
        /\ \A j \in DOMAIN qs :
            LET run == RunOfSources(out, qs[j])
            IN  /\ Cardinality(run) <= 2
                /\ Cardinality(run) = Min(2, Len(items[j].sources))
                /\ \A i \in run :
                    LET k == i - qs[j] - 2
                    IN  /\ out[i].idx = k
                        /\ out[i].text.src = items[j].sources[k].content.src

\* C12 (as claimed): in the text generate_summary_report produces, every
\* question/answer pair is followed by at most 2 source excerpts, the first
\* two of its sources in order, and what is written for an excerpt is at
\* most 150 characters long.
C12_ExcerptsBounded ==
    Rendered =>
        /\ FirstSourcesFollow(last.value, last.arg)
        /\ \A i \in DOMAIN last.value :
            last.value[i].kind = "source" => StrLen(last.value[i].text) <= 150

\* C12 (amended): every question/answer pair is followed by at most 2
\* source excerpts, the first two of its sources in order; an excerpt is
\* the first 150 characters at most of the source's content, and the
\* literal "..." is written after it whether or not anything was cut, so
\* what is written is up to 153 characters long.
C12_ExcerptsBoundedBeforeEllipsis ==
    Rendered =>
        /\ FirstSourcesFollow(last.value, last.arg)
        /\ LET qs == QuestionLines(last.value)
               items == InputItems(last.arg)
           IN  \A j \in DOMAIN qs : \A i \in RunOfSources(last.value, qs[j]) :
                LET content == items[j].sources[i - qs[j] - 2].content
                    text == last.value[i].text
                IN  /\ text.dots >= 3
                    /\ StrLen(text) - 3 = Min(StrLen(content), 150)
                    /\ StrLen(text) <= 153

\* C12's case: a rendered report with a pair that has three sources, two
\* of them written, one of these cut at 150 characters and one shorter.
C12_Witness ==
    /\ Rendered
    /\ \E s \in DOMAIN last.arg : \E i \in DOMAIN last.arg[s] : Len(last.arg[s][i].sources) = 3
    /\ \E i, j \in DOMAIN last.value :
        /\ last.value[i].kind = "source" /\ StrLen(last.value[i].text) = 153
        /\ last.value[j].kind = "source" /\ StrLen(last.value[j].text) = 123

LinesOfKind(out, kind) ==
    SelectSeq([i \in 1..Len(out) |-> i], LAMBDA i : out[i].kind = kind)

\* The question/answer pairs written between lines from and to.
PairsBetween(out, from, to) ==
    LET ps == SelectSeq([i \in 1..Len(out) |-> i],
                        LAMBDA i : from < i /\ i < to /\ out[i].kind = "question")
    IN  [j \in DOMAIN ps |-> [question |-> out[ps[j]].text,
                               answer_kind |-> out[ps[j] + 1].kind,
                               answer |-> out[ps[j] + 1].text]]

\* C13: the text generate_summary_report produces starts with the title and
\* has exactly one second-level heading per section of section_titles, in
\* the order of section_titles whatever sections the report has, each
\* heading closed by its rule marker also when the report lacks the section;
\* the question/answer pairs under a heading are those of the report's
\* section, all of them, in the report's order.
C13_RenderCanonical ==
    Rendered =>
        LET out == last.value
            report == last.arg
            h2 == LinesOfKind(out, "h2")
            rule == LinesOfKind(out, "rule")
            n == Len(section_titles)
        IN  /\ out[1] = Line("title", 0, "M&A TAX RISK ASSESSMENT REPORT")
            /\ LinesOfKind(out, "title") = << 1 >>
            /\ Len(h2) = n /\ Len(rule) = n
            /\ h2[1] = 2 /\ rule[n] = Len(out)
            /\ \A i \in 1..n :
                /\ out[h2[i]].text = section_titles[i].title
                /\ h2[i] < rule[i]
                /\ i < n => h2[i + 1] = rule[i] + 1
                /\ LET items == IF section_titles[i].section \in DOMAIN report
                                    THEN report[section_titles[i].section] ELSE <<>>
                   IN  PairsBetween(out, h2[i], rule[i]) =
                            [j \in DOMAIN items |-> [question |-> items[j].question,
                                                     answer_kind |-> "answer",
                                                     answer |-> items[j].answer]]

\* C13's case: a rendered report that lacks one section and has two
\* different pairs in another, the second section of the titles being
\* absent from the report and the last one present.
C13_Witness ==
    /\ Rendered
    /\ DOMAIN last.arg = {"tax_contingencies"}
    /\ Len(last.arg["tax_contingencies"]) = 2
    /\ last.arg["tax_contingencies"][1].question # last.arg["tax_contingencies"][2].question
    /\ Len(LinesOfKind(last.value, "question")) = 2

\* C14: the chunks split_into_chunks returns are the splitter's chunks in
\* order, their chunk_index values 0, 1, ..., n-1; besides chunk_index a
\* chunk's metadata has exactly the entries of the given metadata whose
\* value is a str, an int, a float or a bool, each with the value given;
\* an entry of any other type is in no chunk under any form.
C14_ChunkIndexAndPrimitiveMetadata ==
    (last.op = "split_into_chunks" /\ last.status = "ok") =>
        LET documents == last.value
            entries == last.arg.metadata.entries
            chunks == SplitText(last.arg.text).value
        IN  /\ DOMAIN documents = 1..Len(chunks)
            /\ \A i \in DOMAIN documents :
                LET md == documents[i].metadata
                IN  /\ documents[i].page_content = chunks[i]
                    /\ "chunk_index" \in DOMAIN md
                    /\ md["chunk_index"] = [type |-> "int", v |-> i - 1]
                    /\ \A k \in MetadataKeys \ {"chunk_index"} :
                        k \in DOMAIN md <=>
                            /\ k \in DOMAIN entries
                            /\ entries[k].type \in {"str", "int", "float", "bool"}
                    /\ \A k \in DOMAIN md \ {"chunk_index"} : md[k] = entries[k]
                    /\ DOMAIN md \subseteq MetadataKeys

\* C14's case: two chunks cut from a text whose metadata has a string, a
\* None and its own chunk_index entry; the string is kept, the None is
\* dropped and the second chunk's index is 1.
C14_Witness ==
    /\ last.op = "split_into_chunks" /\ last.status = "ok"
    /\ Len(last.value) = 2
    /\ DOMAIN last.arg.metadata.entries = MetadataKeys
    /\ last.arg.metadata.entries["filename"].type = "str"
    /\ last.arg.metadata.entries["creation_date"].type = "NoneType"
    /\ last.arg.metadata.entries["chunk_index"] = [type |-> "int", v |-> 7]
    /\ DOMAIN last.value[2].metadata = {"filename", "chunk_index"}
    /\ last.value[2].metadata["chunk_index"].v = 1

\* The k stored chunks nearest to q in order of increasing distance, a
\* chunk stored earlier standing before one stored later at the same
\* distance.
RECURSIVE InsertionRanked(_, _, _, _)
InsertionRanked(docs, remaining, q, k) ==
    IF k = 0 \/ remaining = {}
        THEN <<>>
        ELSE LET nearest == {i \in remaining :
                                \A j \in remaining :
                                    Distance(q, docs[i].document) <= Distance(q, docs[j].document)}
                 first == CHOOSE i \in nearest : \A j \in nearest : i <= j
             IN  <<docs[first].document>> \o InsertionRanked(docs, remaining \ {first}, q, k - 1)

\* C15 (as claimed): a similarity_search that does not fail returns
\* min(k, stored count) results, k at most, nearest first, and of two
\* results at the same distance the one stored earlier comes first; the
\* context RAGEngine's retriever hands to the prompt is that result for
\* k = TOP_K_RESULTS, in the same order.
C15_SearchOrderedTiesByInsertion ==
    /\ (last.op = "similarity_search" /\ last.status = "ok") =>
        /\ Len(last.value) <= last.k
        /\ Len(last.value) = Min(last.k, Len(collection.docs))
        /\ \A i, j \in DOMAIN last.value :
            i < j => Distance(last.arg, last.value[i]) <= Distance(last.arg, last.value[j])
        /\ last.value = InsertionRanked(collection.docs, DOMAIN collection.docs,
                                        last.arg, last.k)
    /\ (last.op = "query" /\ last.prompt.built) =>
        /\ last.k = TOP_K_RESULTS
        /\ last.prompt.context =
                [i \in 1..Min(TOP_K_RESULTS, Len(collection.docs)) |->
                    InsertionRanked(collection.docs, DOMAIN collection.docs,
                                    last.arg, TOP_K_RESULTS)[i].page_content]

\* C16: add_documents never merges or drops chunks, and only
\* clear_collection removes any: a successful call with n chunks returns n
\* ids, distinct from each other and from every id stored before the call,
\* stores the n chunks under them after what was stored, and raises what
\* get_collection_count returns by exactly n, also when the same chunks are
\* stored already; no call but clear_collection lowers the count.
C16_NoDeduplication ==
    [][/\ (last'.op = "add_documents" /\ last'.status = "ok") =>
            LET n == Len(last'.arg)
                returned == last'.value
            IN  /\ Len(returned) = n
                /\ \A i, j \in 1..n : i # j => returned[i] # returned[j]
                /\ \A i \in 1..n : \A j \in DOMAIN collection.docs :
                        returned[i] # collection.docs[j].id
                /\ collection'.docs =
                        collection.docs
                        \o [i \in 1..n |-> [id |-> returned[i], document |-> last'.arg[i]]]
                /\ GetCollectionCount(World', NoFault).value =
                        GetCollectionCount(World, NoFault).value + n
       /\ last'.op # "clear_collection" =>
            GetCollectionCount(World', NoFault).value >= GetCollectionCount(World, NoFault).value
      ]_vars

\* C16's case: the chunk of b.pdf added a second time with nothing cleared
\* in between; it is stored twice, under two ids.
C16_Witness ==
    /\ last.op = "add_documents" /\ last.status = "ok"
    /\ last.arg = DocB
    /\ ~cleared
    /\ \E i, j \in DOMAIN collection.docs :
        /\ i < j
        /\ collection.docs[i].document = collection.docs[j].document
        /\ collection.docs[i].id # collection.docs[j].id
        /\ collection.docs[j].id = last.value[1]

\* The file in the uploader has to be processed by the run that starts in
\* this state: it is within the size limit and no document is processed
\* or the processed document has another filename.
ToProcess(file) ==
    /\ ~IsNone(file)
    /\ file.size_mb <= MAX_FILE_SIZE_MB
    /\ (IsNone(ui.processed_document) \/ ui.document_metadata.filename # file.name)

SameFileProcessed(file) ==
    /\ ~IsNone(file)
    /\ ~IsNone(ui.processed_document)
    /\ ui.document_metadata.filename = file.name

\* C17: a run of main() in which text extraction, chunking or add_documents
\* raises shows the error and goes no further, and commits nothing of the
\* document: processed_document, document_metadata, document_analysis and
\* query_history are what they were before the run, and the collection
\* holds what it held.
C17_FailedIngestionCommitsNothing ==
    [][ui'.run.raised # "none" /\ ui'.run.event # "clear" =>
            /\ ui'.run.shown = "processing_error"
            /\ ~ui'.run.qa_shown
            /\ ui'.processed_document = ui.processed_document
            /\ ui'.document_metadata = ui.document_metadata
            /\ ui'.document_analysis = ui.document_analysis
            /\ ui'.query_history = ui.query_history
            /\ collection' = collection
      ]_vars

\* C17's case: with a.pdf processed and a question in the history, b.pdf
\* is uploaded and its add_documents fails.
C17_Witness ==
    /\ ui.run.raised = "StoreFailure"
    /\ ui.run.add_called
    /\ ui.uploaded_file.name = "b.pdf"
    /\ ~IsNone(ui.document_metadata) /\ ui.document_metadata.filename = "a.pdf"
    /\ Len(ui.query_history) = 1
    /\ Len(collection.docs) = 2

\* C18: processed_document, document_metadata and document_analysis are
\* all None or all set, at the end of every run; so whenever the ingestion
\* guard gets past "processed_document is None" it finds a
\* document_metadata to read the filename of.
C18_DocumentFieldsTogether ==
    /\ IsNone(ui.processed_document) <=> IsNone(ui.document_metadata)
    /\ IsNone(ui.processed_document) <=> IsNone(ui.document_analysis)
    /\ ~IsNone(ui.processed_document) => "filename" \in DOMAIN ui.document_metadata

\* C18's case: Clear Database pressed with a document processed; the three
\* fields, set together by the ingestion, are None together.
C18_Witness ==
    /\ ui.run.event = "clear" /\ ui.run.shown = "cleared"
    /\ ui.run.doc_count > 0
    /\ ~IsNone(ui.uploaded_file)
    /\ IsNone(ui.processed_document)
    /\ IsNone(ui.document_metadata)
    /\ IsNone(ui.document_analysis)

\* C19 (as claimed): a run of main() calls add_documents exactly when a
\* file within the size limit is uploaded and no document is processed or
\* the processed document has another filename; a run with the processed
\* file still uploaded adds no chunks; the run that follows Clear Database
\* with a file still uploaded calls add_documents and ends with a
\* collection that is not empty.
C19_IngestsExactlyWhenGuardHolds ==
    [][LET file == ui'.uploaded_file
           run == ui'.run
       IN  /\ run.add_called <=> ToProcess(file)
           /\ (SameFileProcessed(file) /\ run.event # "clear")
                => collection'.docs = collection.docs
           /\ (run.event = "rerun" /\ ~IsNone(file))
                => (run.add_called /\ collection'.docs # <<>>)
      ]_vars

\* C19 (amended): a run of main() that the Clear Database button does not
\* end calls add_documents exactly when a file within the size limit is
\* uploaded, no document is processed or the processed document has another
\* filename, and process_uploaded_file does not raise; a run the button
\* ends calls it never; a run with the processed file still uploaded adds
\* no chunks; the run that follows Clear Database with a file within the
\* size limit still uploaded processes that file again, and if nothing
\* raises it calls add_documents and ends with the collection holding
\* exactly the file's chunks, so a collection that is not empty unless the
\* file has no text.
C19_IngestsWhenGuardHoldsAndNothingFails ==
    [][LET file == ui'.uploaded_file
           run == ui'.run
       IN  /\ run.event # "clear" =>
                (run.add_called <=> (ToProcess(file) /\ run.raised \notin {"extract", "chunk"}))
           /\ run.event = "clear" => ~run.add_called
           /\ (SameFileProcessed(file) /\ run.event # "clear")
                => collection'.docs = collection.docs
           /\ (run.event = "rerun" /\ ~IsNone(file) /\ file.size_mb <= MAX_FILE_SIZE_MB)
                => /\ ToProcess(file)
                   /\ run.raised = "none" =>
                        /\ run.add_called
                        /\ run.shown = "processed"
                        /\ [i \in DOMAIN collection'.docs |-> collection'.docs[i].document]
                                = ChunksOf(file)
                        /\ ChunksOf(file) # <<>> => collection'.docs # <<>>
      ]_vars

\* C19's case: a.pdf was processed, Clear Database was pressed with the
\* file still in the uploader, and the run that followed stored its two
\* chunks again.
C19_Witness ==
    /\ ui.run.event = "rerun"
    /\ ui.run.add_called /\ ui.run.shown = "processed"
    /\ ui.uploaded_file.name = "a.pdf"
    /\ cleared
    /\ Len(collection.docs) = 2
    /\ ids = 4

====
